---- MODULE Spec2Model ----
(***************************************************************************)
(* Vasicek calibration and Monte Carlo simulation (euribor-monte-carlo).   *)
(*                                                                         *)
(* Floats are modelled as fixed-point integers: the integer v stands for   *)
(* the real number v / SCALE.  A squared quantity (a variance) is carried  *)
(* at SCALE * SCALE so that it does not underflow.  Library calls (numpy,  *)
(* scipy) are modelled by what they compute; the optimizer and the random  *)
(* generator, whose results the program does not determine, are inputs.    *)
(***************************************************************************)
EXTENDS Integers, Sequences, FiniteSets, TLC

\* ------------------------------------------------------------------------
\* Fixed-point arithmetic standing for float arithmetic
\* ------------------------------------------------------------------------

\* One unit of the fixed-point representation of a float: 1.0 is SCALE.
SCALE == 1000

Abs(x) == IF x < 0 THEN -x ELSE x

Max(x, y) == IF x >= y THEN x ELSE y

Min(x, y) == IF x <= y THEN x ELSE y

\* n / d rounded to the nearest integer (d # 0).
Rnd(n, d) ==
    IF d > 0 THEN (2 * n + d) \div (2 * d) ELSE (2 * (-n) + (-d)) \div (2 * (-d))

\* x * y and x / y on fixed-point numbers.
Mul(x, y) == Rnd(x * y, SCALE)

Div(x, y) == Rnd(x * SCALE, y)

\* x / y on fixed-point numbers too large for x * SCALE: long division, one
\* decimal digit of SCALE after the other (y > 0).
RECURSIVE Digits(_, _, _)
Digits(rem, y, unit) ==
    IF unit = 1 THEN (IF 2 * rem >= y THEN 1 ELSE 0)
    ELSE ((rem * 10) \div y) * (unit \div 10) + Digits((rem * 10) % y, y, unit \div 10)

LongDiv(x, y) ==
    LET m == Abs(x)
        q == (m \div y) * SCALE + Digits(m % y, y, SCALE)
    IN  IF x < 0 THEN -q ELSE q

\* floor(sqrt(n)) for n >= 0, by bisection on [lo, hi].
RECURSIVE SqrtBetween(_, _, _)
SqrtBetween(n, lo, hi) ==
    IF lo >= hi THEN lo
    ELSE LET mid == (lo + hi + 1) \div 2
         IN  IF mid * mid <= n THEN SqrtBetween(n, mid, hi)
             ELSE SqrtBetween(n, lo, mid - 1)

ISqrt(n) == SqrtBetween(n, 0, Min(n, 46340))

\* np.sqrt of a fixed-point number (x >= 0): sqrt(x / SCALE) * SCALE.
Sqrt(x) == ISqrt(x * SCALE)

\* np.sqrt of a squared quantity carried at SCALE * SCALE.
SqrtSq(v) == ISqrt(v)

\* np.exp(-x) for a fixed-point x >= 0: halve the argument until the Taylor
\* polynomial of degree 4 is exact to one unit, then multiply back.
RECURSIVE ExpNeg(_)
ExpNeg(x) ==
    IF x > 16 * SCALE THEN 0
    ELSE IF 2 * x > SCALE
         THEN Mul(ExpNeg(x \div 2), ExpNeg(x - (x \div 2)))
         ELSE LET x2 == Mul(x, x)
                  x3 == Mul(x2, x)
                  x4 == Mul(x3, x)
              IN  SCALE - x + Rnd(x2, 2) - Rnd(x3, 6) + Rnd(x4, 24)

\* -np.log(b) for a fixed-point b in (0, 1]: double b into (1/2, 1], adding
\* ln 2 each time, then -ln(m) = 2 * atanh((1 - m) / (1 + m)) by its series.
LN2 == 693

RECURSIVE NegLog(_)
NegLog(b) ==
    IF 2 * b <= SCALE THEN LN2 + NegLog(2 * b)
    ELSE LET y  == Div(SCALE - b, SCALE + b)
             y2 == Mul(y, y)
             y3 == Mul(y2, y)
             y5 == Mul(y3, y2)
         IN  2 * (y + Rnd(y3, 3) + Rnd(y5, 5))

\* np.log(x) for a fixed-point x > 0: halve x into (0, 1], adding ln 2 each
\* time.
RECURSIVE Log(_)
Log(x) == IF x > SCALE THEN LN2 + Log((x \div 2) + (x % 2)) ELSE -NegLog(x)

\* ln(2 pi) and ln(SCALE) as fixed-point numbers.
LN_2PI == 1838

LN_SCALE == 6908

\* Sum, minimum and maximum of a sequence of integers.
RECURSIVE SumSeq(_)
SumSeq(s) == IF s = <<>> THEN 0 ELSE Head(s) + SumSeq(Tail(s))

RECURSIVE MinSeq(_)
MinSeq(s) == IF Len(s) = 1 THEN s[1] ELSE Min(Head(s), MinSeq(Tail(s)))

RECURSIVE MaxSeq(_)
MaxSeq(s) == IF Len(s) = 1 THEN s[1] ELSE Max(Head(s), MaxSeq(Tail(s)))

\* ------------------------------------------------------------------------
\* calibration.py
\* ------------------------------------------------------------------------

\* VasicekParams: the four floats of one calibrated model.
VasicekParams(kappa, theta, sigma, r0) ==
    [kappa |-> kappa, theta |-> theta, sigma |-> sigma, r0 |-> r0]

\* What a call ends in: a returned value (params = <<p>>) or an exception
\* raised to the caller (params = <<>>), and the library calls made before.
Returned(p, log) == [raised |-> FALSE, error |-> "", params |-> <<p>>, log |-> log]

Raised(e, log) == [raised |-> TRUE, error |-> e, params |-> <<>>, log |-> log]

\* The minimum number of points below which calibration raises.
MIN_OBS == 10

\* Slope clamp of the regression, floors of kappa and sigma.
B_LO == 1

B_HI == 999

KAPPA_FLOOR == 1

SIGMA_FLOOR == 10

\* r[:-1] and r[1:].
AllButLast(r) == IF r = <<>> THEN <<>> ELSE SubSeq(r, 1, Len(r) - 1)

AllButFirst(r) == IF r = <<>> THEN <<>> ELSE Tail(r)

\* np.linalg.lstsq(column_stack([ones, x]), y): the least-squares intercept
\* and slope <<a, b>>; the minimum-norm solution when x is constant.
Lstsq(x, y) ==
    LET n   == Len(x)
        sx  == SumSeq(x)
        sy  == SumSeq(y)
        sxx == SumSeq([i \in 1..n |-> x[i] * x[i]])
        sxy == SumSeq([i \in 1..n |-> x[i] * y[i]])
        d   == n * sxx - sx * sx
        num == n * sxy - sx * sy
    IN  IF d # 0
        THEN LET b == LongDiv(num, d)
             IN  <<Rnd(sy * SCALE - b * sx, n * SCALE), b>>
        ELSE LET c    == x[1]
                 ybar == Rnd(sy, n)
                 den  == SCALE + Mul(c, c)
             IN  <<Div(ybar, den), Div(Mul(c, ybar), den)>>

\* residuals.std(ddof=2): the standard deviation with n - 2 degrees of freedom.
StdDdof(res, ddof) ==
    LET n  == Len(res)
        s  == SumSeq(res)
        ss == SumSeq([i \in 1..n |-> res[i] * res[i]])
    IN  ISqrt(Rnd(n * ss - s * s, n * (n - ddof)))

\* A calibrator that starts the simulation from the first observation.
FirstRate(r) == r[1]

\* r[-1], the last observation, which becomes r0.
LastRate(r) == r[Len(r)]

\* A clamp that sends the slope to the far bound instead of the near one.
ClampSlopeFarBound(b) == IF b <= 0 THEN B_HI ELSE IF b >= SCALE THEN B_LO ELSE b

\* The slope the regression uses: clamped when outside the open interval (0, 1).
ClampSlope(b) == IF b <= 0 \/ b >= SCALE THEN Max(B_LO, Min(B_HI, b)) ELSE b

\* A regression that returns sigma unfloored.
FloorSigmaMissing(sigma) == sigma

\* The sigma the regression returns: floored when not positive.
FloorSigma(sigma) == IF sigma <= 0 THEN SIGMA_FLOOR ELSE sigma

\* The number of points the regression strategy counts: len(r[:-1]).
OlsCount(r) == Len(AllButLast(r))

\* A likelihood strategy that counts one point too many.
MleCountOffByOne(r) == Len(r) + 1

\* The number of points the likelihood strategy counts: len(r).
MleCount(r) == Len(r)

\* residuals = y - (a + b * x), with the slope the regression uses.
Residuals(r, a, b) ==
    [i \in 1..OlsCount(r) |-> AllButFirst(r)[i] - (a + Mul(b, AllButLast(r)[i]))]

\* "Ajustement pour processus continu": sigma from the residual deviation.
OlsSigma(kappa, b, dt, sigma_hat) ==
    IF kappa > 0
    THEN Mul(sigma_hat, Sqrt(Div(2 * kappa, SCALE - Mul(b, b))))
    ELSE Div(sigma_hat, Sqrt(dt))

\* The mapping of the regression to the parameters, given the intercept a,
\* the slope b the regression uses, kappa = -ln(b) / dt and the residual
\* deviation; the returned kappa is floored.
OlsParams(r, dt, a, b, kappa, sigma_hat) ==
    VasicekParams(Max(KAPPA_FLOOR, kappa),
                  Div(a, SCALE - b),
                  FloorSigma(OlsSigma(kappa, b, dt, sigma_hat)),
                  LastRate(r))

\* The regression from the clamped slope on.
OlsFromSlope(r, dt, a, b) ==
    OlsParams(r, dt, a, b, Div(NegLog(b), dt), StdDdof(Residuals(r, a, b), 2))

\* The regression from the fitted coefficients beta = <<a, b>> on.
OlsFromFit(r, dt, beta) == OlsFromSlope(r, dt, beta[1], ClampSlope(beta[2]))

calibrate_vasicek_ols(rates, dt) ==
    IF OlsCount(rates) < MIN_OBS THEN Raised("ValueError: too short", <<>>)
    ELSE Returned(OlsFromFit(rates, dt, Lstsq(AllButLast(rates), AllButFirst(rates))),
                  <<"lstsq">>)

\* neg_log_likelihood(params), the objective handed to the optimizer, on the
\* series r with step dt.  It returns a float, or the penalty 1e10 (penalty
\* TRUE), or raises.  `numeric` says how the float arithmetic of the try
\* block goes: "finite", or "overflow" when sigma ** 2 raises OverflowError
\* (which Python floats do beyond 1e308; numpy floats give inf instead).
Value(v) == [raised |-> FALSE, error |-> "", penalty |-> FALSE, value |-> v]

Penalty == [raised |-> FALSE, error |-> "", penalty |-> TRUE, value |-> 0]

Throws(e) == [raised |-> TRUE, error |-> e, penalty |-> FALSE, value |-> 0]

\* var_r = sigma ** 2 * (1 - exp_kappa_dt ** 2) / (2 * kappa), at SCALE * SCALE.
TransitionVar(kappa, sigma, exp_kappa_dt) ==
    Rnd(sigma * sigma * (SCALE - Mul(exp_kappa_dt, exp_kappa_dt)), 2 * kappa)

\* One term of the sum: the log-density of r[i] given r[i-1] (i counted
\* from 1 as in the source, r[i] being element i + 1 of the sequence).
LogDensity(r, i, theta, exp_kappa_dt, var_r) ==
    -Rnd(LN_2PI + Log(var_r * SCALE) - 2 * LN_SCALE, 2)
      - Rnd(Rnd((r[i + 1] - (theta + Mul(r[i] - theta, exp_kappa_dt)))
                  * (r[i + 1] - (theta + Mul(r[i] - theta, exp_kappa_dt))) * SCALE,
                var_r),
            2)

\* The loop `for i in range(1, n)` and `return -log_lik`.
NegatedSum(r, theta, exp_kappa_dt, var_r) ==
    Value(-SumSeq([i \in 1..(Len(r) - 1) |->
                      LogDensity(r, i, theta, exp_kappa_dt, var_r)]))

\* The body of the try block.
TryBody(r, x, exp_kappa_dt, var_r, numeric) ==
    IF numeric = "overflow" THEN Throws("OverflowError")
    ELSE IF var_r <= 0 THEN Penalty
    ELSE NegatedSum(r, x[2], exp_kappa_dt, var_r)

\* An objective without the except clause.
ExceptMissing(body) == body

\* except (OverflowError, ZeroDivisionError): return 1e10
Except(body) ==
    IF body.raised /\ body.error \in {"OverflowError", "ZeroDivisionError"}
    THEN Penalty ELSE body

LikelihoodFrom(r, x, exp_kappa_dt, numeric) ==
    Except(TryBody(r, x, exp_kappa_dt,
                   TransitionVar(x[1], x[3], exp_kappa_dt), numeric))

neg_log_likelihood(x, r, dt, numeric) ==
    IF x[1] <= 0 \/ x[3] <= 0 THEN Penalty
    ELSE LikelihoodFrom(r, x, ExpNeg(Mul(x[1], dt)), numeric)

\* Box of the optimizer, default start when the regression fails.
KAPPA_MIN == 1

KAPPA_MAX == 10000

THETA_MARGIN == 10

SIGMA_MIN == 1

SIGMA_MAX == 1000

DEFAULT_KAPPA == 100

\* rates.mean() and rates.std() (pandas: n - 1 degrees of freedom).
Mean(r) == Rnd(SumSeq(r), Len(r))

\* bounds = [(0.001, 10), (min - 0.01, max + 0.01), (0.001, 1)]
Bounds(r) ==
    << <<KAPPA_MIN, KAPPA_MAX>>,
       <<MinSeq(r) - THETA_MARGIN, MaxSeq(r) + THETA_MARGIN>>,
       <<SIGMA_MIN, SIGMA_MAX>> >>

\* An optimizer that iterates from the start vector as given.
ClipMissing(x, bounds) == x

\* A start vector projected into the box, as L-BFGS-B does before iterating.
Clip(x, bounds) == [i \in 1..3 |-> Max(bounds[i][1], Min(bounds[i][2], x[i]))]

\* scipy.optimize.minimize(..., bounds=bounds, method='L-BFGS-B'): it throws,
\* or returns a point of the box with success set or not.  Which one, and the
\* point, are the optimizer's: opt.outcome and opt.pick are inputs.
Minimize(x0, bounds, opt) ==
    [raised  |-> opt.outcome = "throws",
     success |-> opt.outcome = "success",
     x       |-> CASE opt.pick = "lower" -> [i \in 1..3 |-> bounds[i][1]]
                   [] opt.pick = "upper" -> [i \in 1..3 |-> bounds[i][2]]
                   [] OTHER -> Clip(x0, bounds)]

\* The outcome res with the library calls `before` put in front of its own.
After(before, res) == [res EXCEPT !.log = before \o @]

\* x0: the regression's estimate, or the defaults when the regression raised.
StartVector(r, initial) ==
    IF initial.raised
    THEN <<DEFAULT_KAPPA, Mean(r), StdDdof(r, 1)>>
    ELSE <<initial.params[1].kappa, initial.params[1].theta, initial.params[1].sigma>>

\* `return calibrate_vasicek_ols(rates, dt)` inside the try (inTry): what it
\* raises is caught by `except Exception`, whose handler calls it again.
Fallback(inTry, handler) == IF inTry.raised THEN handler ELSE inTry

\* The likelihood strategy from the optimizer's result on; log holds the
\* library calls made so far.
MleFromResult(r, dt, result, log) ==
    IF result.raised THEN After(log, calibrate_vasicek_ols(r, dt))
    ELSE IF result.success
         THEN Returned(VasicekParams(result.x[1], result.x[2], result.x[3], LastRate(r)),
                       log)
         ELSE Fallback(After(log, calibrate_vasicek_ols(r, dt)),
                       After(log, calibrate_vasicek_ols(r, dt)))

\* The likelihood strategy from the initial regression on.
MleFromStart(r, dt, opt, initial) ==
    MleFromResult(r, dt, Minimize(StartVector(r, initial), Bounds(r), opt),
                  initial.log \o <<"minimize">>)

calibrate_vasicek_mle(rates, dt, opt) ==
    IF MleCount(rates) < MIN_OBS THEN Raised("ValueError: too short", <<>>)
    ELSE MleFromStart(rates, dt, opt, calibrate_vasicek_ols(rates, dt))

\* estimate_model_quality: the standardized one-step residuals of the series
\* under the parameters, and their root mean square and mean.  A zero
\* variance makes numpy divide by zero (inf or nan, no exception): finite is
\* FALSE then.
QualityVar(params, exp_kappa_dt) ==
    Rnd(params.sigma * params.sigma * (SCALE - Mul(exp_kappa_dt, exp_kappa_dt)),
        2 * params.kappa)

QualityResiduals(r, params, exp_kappa_dt, sd) ==
    [i \in 1..(Len(r) - 1) |->
        Div(r[i + 1] - (params.theta + Mul(r[i] - params.theta, exp_kappa_dt)), sd)]

QualityOf(residuals) ==
    [finite        |-> TRUE,
     rmse          |-> Sqrt(Rnd(SumSeq([i \in 1..Len(residuals) |->
                                            Mul(residuals[i], residuals[i])]),
                                Len(residuals))),
     mean_residual |-> Rnd(SumSeq(residuals), Len(residuals))]

QualityFrom(r, params, exp_kappa_dt, sd) ==
    IF sd = 0 \/ Len(r) < 2
    THEN [finite |-> FALSE, rmse |-> 0, mean_residual |-> 0]
    ELSE QualityOf(QualityResiduals(r, params, exp_kappa_dt, sd))

estimate_model_quality(rates, params, dt) ==
    QualityFrom(rates, params, ExpNeg(Mul(params.kappa, dt)),
                SqrtSq(QualityVar(params, ExpNeg(Mul(params.kappa, dt)))))

\* What estimate_model_quality leaves of the objects it was handed: it reads
\* rates.values and the fields of params, and builds its residuals in a list
\* of its own; it assigns to no element and to no field.
QualityLeaves(objs) == objs

\* ------------------------------------------------------------------------
\* simulation.py
\* ------------------------------------------------------------------------

\* The states of a random generator, and its step.
RNG_MOD == 8

RngNext(g) == (5 * g + 3) % RNG_MOD

\* The state after k draws.
RECURSIVE RngAt(_, _)
RngAt(g, k) == IF k = 0 THEN g ELSE RngAt(RngNext(g), k - 1)

\* The standard-normal value a generator state yields: -1, 0 or 1.
Normal(g) == ((g % 3) - 1) * SCALE

\* A generator that ignores the seed and always starts from OS entropy.
default_rng_unseeded(seed, entropy) == entropy % RNG_MOD

\* np.random.default_rng(seed): a generator of the call's own, set from the
\* seed when there is one (seed = <<s>>), from fresh entropy otherwise.
default_rng(seed, entropy) ==
    IF seed # <<>> THEN (7 * seed[1] + 1) % RNG_MOD ELSE entropy % RNG_MOD

\* np.random.seed(seed) when a seed is given: the process-wide legacy
\* generator is set from the seed; without a seed it is left alone.
SeedGlobal(np_state, seed) == IF seed # <<>> THEN seed ELSE np_state

\* The draws of a call: z[t][j] is the j-th value of the t-th call of
\* rng.standard_normal(n_paths), t in 1..n_steps.
Draws(rng, n_steps, n_paths) ==
    [t \in 1..n_steps |->
        [j \in 1..n_paths |-> Normal(RngAt(rng, (t - 1) * n_paths + j))]]

\* rng.standard_normal(n): the next n values of the generator, and the
\* generator after them.
StandardNormal(g, n) == [j \in 1..n |-> Normal(RngAt(g, j))]

\* A generator that is not advanced by a draw.
StreamRewound(g, n) == g

StreamAfter(g, n) == RngAt(g, n)

\* An exact step that reverts towards zero instead of theta.
ExactStepTowardsZero(prev, theta, exp_kappa_dt, std_dev, z) ==
    Mul(prev, exp_kappa_dt) + Mul(std_dev, z)

\* One step of the exact scheme for one path.
ExactStep(prev, theta, exp_kappa_dt, std_dev, z) ==
    (theta + Mul(prev - theta, exp_kappa_dt)) + Mul(std_dev, z)

\* An Euler step whose drift pushes away from theta.
EulerStepAwayFromTheta(prev, kappa, theta, sigma, dt, sqrt_dt, z) ==
    prev - Mul(Mul(kappa, theta - prev), dt) + Mul(Mul(sigma, sqrt_dt), z)

\* One step of the Euler scheme for one path.
EulerStep(prev, kappa, theta, sigma, dt, sqrt_dt, z) ==
    LET drift     == Mul(Mul(kappa, theta - prev), dt)
        diffusion == Mul(Mul(sigma, sqrt_dt), z)
    IN  prev + drift + diffusion

\* A matrix whose row 0 is left at the zeros it was allocated with.
FirstRowZeros(r0, n_paths) == [j \in 1..n_paths |-> 0]

\* paths[0] = r0
FirstRow(r0, n_paths) == [j \in 1..n_paths |-> r0]

\* The constants of the exact scheme, computed once before the loop.
ExpKappaDt(params, dt) == ExpNeg(Mul(params.kappa, dt))

Variance(params, dt) ==
    Rnd(params.sigma * params.sigma * (SCALE - ExpNeg(Mul(2 * params.kappa, dt))),
        2 * params.kappa)

StdDev(params, dt) == SqrtSq(Variance(params, dt))

\* An exact scheme that absorbs at zero.
ExactRowFloored(before, params, exp_kappa_dt, std_dev, zt) ==
    [j \in 1..Len(zt) |->
        Max(0, ExactStep(before[Len(before)][j], params.theta, exp_kappa_dt,
                         std_dev, zt[j]))]

\* One pass of the loop of the exact scheme: the row after the rows `before`,
\* from the draws zt of this step.
ExactRow(before, params, exp_kappa_dt, std_dev, zt) ==
    [j \in 1..Len(zt) |->
        ExactStep(before[Len(before)][j], params.theta, exp_kappa_dt, std_dev, zt[j])]

\* A loop that computes every row from row 0 instead of the row before.
ExactLoopFromFirstRow(before, params, exp_kappa_dt, std_dev, zt) ==
    Append(before, ExactRow(<<before[1]>>, params, exp_kappa_dt, std_dev, zt))

ExactLoop(before, params, exp_kappa_dt, std_dev, zt) ==
    Append(before, ExactRow(before, params, exp_kappa_dt, std_dev, zt))

\* The rows 0..n_steps of the exact scheme, driven by the draws z; row t is
\* element t + 1 of the sequence.
RECURSIVE ExactRows(_, _, _, _, _)
ExactRows(params, n_steps, n_paths, dt, z) ==
    IF n_steps = 0 THEN <<FirstRow(params.r0, n_paths)>>
    ELSE ExactLoop(ExactRows(params, n_steps - 1, n_paths, dt, z), params,
                   ExpKappaDt(params, dt), StdDev(params, dt), z[n_steps])

\* An Euler scheme that gives every path the draw of the first path.
EulerRowSharedDraw(before, params, dt, sqrt_dt, zt) ==
    [j \in 1..Len(zt) |->
        EulerStep(before[Len(before)][j], params.kappa, params.theta, params.sigma,
                  dt, sqrt_dt, zt[1])]

\* One pass of the loop of the Euler scheme.
EulerRow(before, params, dt, sqrt_dt, zt) ==
    [j \in 1..Len(zt) |->
        EulerStep(before[Len(before)][j], params.kappa, params.theta, params.sigma,
                  dt, sqrt_dt, zt[j])]

EulerLoop(before, params, dt, sqrt_dt, zt) ==
    Append(before, EulerRow(before, params, dt, sqrt_dt, zt))

RECURSIVE EulerRows(_, _, _, _, _)
EulerRows(params, n_steps, n_paths, dt, z) ==
    IF n_steps = 0 THEN <<FirstRow(params.r0, n_paths)>>
    ELSE EulerLoop(EulerRows(params, n_steps - 1, n_paths, dt, z), params, dt,
                   Sqrt(dt), z[n_steps])

\* What a simulator leaves behind: the matrix it returns and the process-wide
\* legacy generator, which it seeds when given a seed.
simulate_vasicek_exact(params, n_steps, n_paths, dt, seed, entropy, np_state) ==
    [np_random |-> SeedGlobal(np_state, seed),
     paths     |-> ExactRows(params, n_steps, n_paths, dt,
                             Draws(default_rng(seed, entropy), n_steps, n_paths))]

simulate_vasicek_euler(params, n_steps, n_paths, dt, seed, entropy, np_state) ==
    [np_random |-> SeedGlobal(np_state, seed),
     paths     |-> EulerRows(params, n_steps, n_paths, dt,
                             Draws(default_rng(seed, entropy), n_steps, n_paths))]

\* A comparison of the selector as given, without lower-casing.
LowerMissing(s) == s

\* str.lower() on the selectors the callers pass.
Lower(s) ==
    CASE s = "EXACT" -> "exact"
      [] s = "Exact" -> "exact"
      [] s = "Euler" -> "euler"
      [] OTHER       -> s

\* len(paths) * dt, the horizon the validation group uses.
Horizon(paths, dt) == Len(paths) * dt

\* np.mean of a row.
MeanRow(row) == Rnd(SumSeq(row), Len(row))

\* The closed-form terminal mean and variance (at SCALE * SCALE) at horizon T.
TheoreticalMean(params, T) ==
    params.theta + Mul(params.r0 - params.theta, ExpNeg(Mul(params.kappa, T)))

TheoreticalVar(params, T) ==
    Rnd(Rnd(params.sigma * params.sigma * SCALE, 2 * params.kappa)
          * (SCALE - ExpNeg(Mul(2 * params.kappa, T))),
        SCALE)

\* np.mean of a boolean vector over the paths: the fraction of the paths in
\* the set `hits`.
Fraction(hits, n_paths) == Rnd(SCALE * Cardinality(hits), n_paths)

\* A sign test that looks at the terminal row only.
EverNegativeAtMaturity(paths, j) == paths[Len(paths)][j] < 0

\* np.any(paths < 0, axis=0) at column j.
EverNegative(paths, j) == \E t \in 1..Len(paths) : paths[t][j] < 0

\* The sign statistics of the `paths` group.
PathStats(paths) ==
    [time_above_initial  |-> Fraction({j \in 1..Len(paths[1]) :
                                          paths[Len(paths)][j] > paths[1][j]},
                                      Len(paths[1])),
     negative_rates_prob |-> Fraction({j \in 1..Len(paths[1]) :
                                          EverNegative(paths, j)},
                                      Len(paths[1]))]

\* The statistics bundle, given the terminal row, the horizon T and the two
\* theoretical moments.
StatsBundle(paths, dt, terminal_rates, T, theoretical_mean, theoretical_var) ==
    [terminal   |-> [mean |-> MeanRow(terminal_rates),
                     min  |-> MinSeq(terminal_rates),
                     max  |-> MaxSeq(terminal_rates)],
     paths      |-> PathStats(paths),
     validation |-> [theoretical_terminal_mean |-> theoretical_mean,
                     theoretical_terminal_std  |-> SqrtSq(theoretical_var),
                     mean_error |-> Abs(MeanRow(terminal_rates) - theoretical_mean)],
     simulation_info |-> [n_paths |-> Len(paths[1]),
                          n_steps |-> Len(paths) - 1,
                          total_time_years |-> T,
                          dt |-> dt]]

calculate_simulation_statistics(paths, params, dt) ==
    StatsBundle(paths, dt, paths[Len(paths)], Horizon(paths, dt),
                TheoreticalMean(params, Horizon(paths, dt)),
                TheoreticalVar(params, Horizon(paths, dt)))

\* calculate_max_drawdown: per path the running peak, the largest relative
\* fall below it, and the mean of these over the paths.
\* (A running peak of exactly zero, where the quotient is not a number, is
\* reported as 0; it does not arise when the first row is positive.)
RECURSIVE Peak(_, _, _)
Peak(paths, i, t) ==
    IF t = 1 THEN paths[1][i] ELSE Max(Peak(paths, i, t - 1), paths[t][i])

\* A drawdown measured against the path's first value, not its running peak.
PathDrawdownFromStart(paths, i) ==
    MaxSeq([t \in 1..Len(paths) |->
              Div(paths[1][i] - paths[t][i], paths[1][i])])

PathDrawdown(paths, i) ==
    MaxSeq([t \in 1..Len(paths) |->
              IF Peak(paths, i, t) = 0 THEN 0
              ELSE Div(Peak(paths, i, t) - paths[t][i], Peak(paths, i, t))])

calculate_max_drawdown(paths) ==
    MeanRow([i \in 1..Len(paths[1]) |-> PathDrawdown(paths, i)])

\* A statistics operation that orders the terminal row in place.
StatisticsSortsTerminal(objs) ==
    [objs EXCEPT !.paths[Len(objs.paths)] =
        [j \in 1..Len(@) |-> IF j = 1 THEN MinSeq(@) ELSE MaxSeq(@)]]

\* What the statistics operations leave of the objects they were handed:
\* they slice the matrix (paths[-1], paths[0], paths[:, i]) and reduce the
\* slices into new values; they assign to no cell and to no field.
StatisticsLeaves(objs) == objs

DrawdownLeaves(objs) == objs

\* What a simulator leaves of the ParameterSet it was handed: it unpacks the
\* four fields into locals and writes only to the matrix it allocated.
SimulatorLeaves(objs) == objs

\* What run_monte_carlo_simulation ends in: the pair (paths, stats), or an
\* exception raised to the caller; and the legacy generator it leaves.
SimReturned(sim, stats) ==
    [raised |-> FALSE, error |-> "", paths |-> sim.paths, stats |-> <<stats>>,
     np_random |-> sim.np_random]

SimRaised(e, np_state) ==
    [raised |-> TRUE, error |-> e, paths |-> <<>>, stats |-> <<>>,
     np_random |-> np_state]

\* `stats = calculate_simulation_statistics(paths, params, dt)` and the return.
WithStats(sim, params, dt) ==
    SimReturned(sim, calculate_simulation_statistics(sim.paths, params, dt))

run_monte_carlo_simulation(params, horizon, n_paths, dt, method, seed, entropy, np_state) ==
    IF Lower(method) = "exact"
    THEN WithStats(simulate_vasicek_exact(params, horizon, n_paths, dt, seed,
                                          entropy, np_state), params, dt)
    ELSE IF Lower(method) = "euler"
    THEN WithStats(simulate_vasicek_euler(params, horizon, n_paths, dt, seed,
                                          entropy, np_state), params, dt)
    ELSE SimRaised("ValueError: unknown method", np_state)

\* ------------------------------------------------------------------------
\* fetch_data.py
\* ------------------------------------------------------------------------

\* CANDIDATE_SERIES, in declaration order.
CANDIDATE_SERIES == <<"Euribor 3M (FM)", "Euribor 3M (MIR)">>

\* The level above which a series is taken to be quoted in percent.
PERCENT_ABOVE == 2000

\* The divisor that turns percent into a fraction.
PERCENT == 100

\* "Conversion en decimal si necessaire": divide by 100 when the largest rate
\* exceeds 2.
ToDecimal(rows) ==
    IF MaxSeq(rows) > PERCENT_ABOVE
    THEN [i \in 1..Len(rows) |-> Rnd(rows[i], PERCENT)]
    ELSE rows

\* What a loader ends in: the frame and its metadata, or an exception; and
\* the sources it tried, in order.
Loaded(rows, source, label, tried) ==
    [raised |-> FALSE, error |-> "", rates |-> rows,
     meta |-> <<[source |-> source, series_label |-> label]>>, tried |-> tried]

LoadRaised(e, tried) ==
    [raised |-> TRUE, error |-> e, rates |-> <<>>, meta |-> <<>>, tried |-> tried]

\* fetch_euribor from candidate k on: world.api[k] is what the request for
\* candidate k meets ("ok", "http_error", "no_columns", "exception"), and
\* world.rows are the rates of the answer, date-ordered and complete.
RECURSIVE FetchFrom(_, _, _)
FetchFrom(world, k, tried) ==
    IF k > Len(CANDIDATE_SERIES)
    THEN LoadRaised("RuntimeError: all series failed", tried)
    ELSE IF world.api[k] = "ok"
         THEN Loaded(ToDecimal(world.rows), "ECB_SDW", CANDIDATE_SERIES[k],
                     Append(tried, CANDIDATE_SERIES[k]))
         ELSE FetchFrom(world, k + 1, Append(tried, CANDIDATE_SERIES[k]))

fetch_euribor(world) == FetchFrom(world, 1, <<>>)

\* A loader that prefers the local CSV and asks the API only without it.
load_csv_first(world) ==
    IF world.csv = "ok"
    THEN Loaded(world.rows, "fallback_csv", "", <<"csv">>)
    ELSE fetch_euribor(world)

load_with_fallback(world) ==
    LET api == fetch_euribor(world)
    IN  IF ~api.raised THEN api
        ELSE IF world.csv = "ok"
             THEN Loaded(world.rows, "fallback_csv", "", Append(api.tried, "csv"))
             ELSE LoadRaised("RuntimeError: API + CSV", Append(api.tried, "csv"))

\* ------------------------------------------------------------------------
\* main.py
\* ------------------------------------------------------------------------

\* argparse: --calibration choices=["ols", "mle"], --method
\* choices=["exact", "euler"]; any other value ends the process with status 2
\* before main's body runs.
CalibrationChoices == {"ols", "mle"}

MethodChoices == {"exact", "euler"}

\* A parser without the choices lists.
parse_arguments_any(argv) == [raised |-> FALSE, exit |-> 0]

parse_arguments(argv) ==
    IF argv.calibration \in CalibrationChoices /\ argv.method \in MethodChoices
    THEN [raised |-> FALSE, exit |-> 0]
    ELSE [raised |-> TRUE, exit |-> 2]

\* The exit status of main when a stage raises (sys.exit(1)).
EXIT_FAILURE == 1

\* ------------------------------------------------------------------------
\* Inputs
\* ------------------------------------------------------------------------

\* The longest input series.
MaxLen == 12

\* The rate series: the first n observations of one of four histories.
\*   "flat"   a constant rate (the regression is rank deficient)
\*   "ramp"   a steady rise (fitted slope 1)
\*   "zigzag" an oscillation through negative rates (fitted slope -1)
\*   "revert" a noisy reversion towards 3.3% (fitted slope inside (0, 1))
Histories == {"flat", "ramp", "zigzag", "revert"}

RevertPath == <<45, 38, 36, 33, 32, 32, 31, 32, 34, 33, 35, 33, 35, 36, 35, 36>>

Observation(h, i) ==
    CASE h = "flat"   -> 30
      [] h = "ramp"   -> 10 + 2 * i
      [] h = "zigzag" -> IF i % 2 = 1 THEN -5 ELSE 40
      [] OTHER        -> RevertPath[((i - 1) % Len(RevertPath)) + 1]

Series(h, n) == [i \in 1..n |-> Observation(h, i)]

AllSeries == {Series(h, n) : h \in Histories, n \in 0..MaxLen}

\* Step sizes: a quarter, one year, two years.
StepSizes == {SCALE \div 4, SCALE, 2 * SCALE}

\* What the optimizer may do.
Optimizer ==
    {[outcome |-> "success", pick |-> k] : k \in {"lower", "start", "upper"}}
        \cup {[outcome |-> o, pick |-> "start"] : o \in {"failure", "throws"}}

NoOptimizer == [outcome |-> "none", pick |-> "none"]

\* The longest horizon and the widest path set of a simulation.
MaxSteps == 2

MaxPaths == 2

\* Parameter sets: the zero-horizon example of the specification (kappa 0.5,
\* theta 3%, sigma 1%, r0 3%), and a fast, volatile one starting below its
\* long-run level.
ParamSets == {VasicekParams(500, 30, 10, 30), VasicekParams(3000, 50, 500, 20)}

\* Scheme selectors a caller may pass.
Methods == {"exact", "euler", "EXACT", "milstein"}

\* Seeds: none, or an integer.
Seeds == {<<>>, <<7>>, <<8>>}

\* What the operating system's entropy may initialise an unseeded generator to.
Entropy == {0, 5}

\* ------------------------------------------------------------------------
\* State
\* ------------------------------------------------------------------------

VARIABLES
    pc,         \* where the caller is: "ready" to call, or "done" with a call
    call,       \* the call: operation and arguments
    ret,        \* what the call ended in
    np_random,  \* the process-wide legacy generator (np.random): <<>> as the
                \* process started it, <<s>> once seeded with s
    ref         \* an earlier seeded simulation kept for comparison: <<>> or
                \* <<[method, seed, paths, age, between]>>

vars == <<pc, call, ret, np_random, ref>>

NoRet == [raised |-> FALSE, error |-> "", params |-> <<>>, log |-> <<>>]

\* ------------------------------------------------------------------------
\* The calibrator called on a series
\* ------------------------------------------------------------------------

CalCalls ==
    {[op |-> "calibrate_vasicek_ols", rates |-> r, dt |-> dt, opt |-> NoOptimizer] :
        r \in AllSeries, dt \in StepSizes}
    \cup
    {[op |-> "calibrate_vasicek_mle", rates |-> r, dt |-> dt, opt |-> o] :
        r \in AllSeries, dt \in StepSizes, o \in Optimizer}

CalInit ==
    /\ pc = "ready"
    /\ call \in CalCalls
    /\ ret = NoRet
    /\ np_random = <<>>
    /\ ref = <<>>

CallOls ==
    /\ pc = "ready"
    /\ call.op = "calibrate_vasicek_ols"
    /\ ret' = calibrate_vasicek_ols(call.rates, call.dt)
    /\ pc' = "done"
    /\ UNCHANGED <<call, np_random, ref>>

CallMle ==
    /\ pc = "ready"
    /\ call.op = "calibrate_vasicek_mle"
    /\ ret' = calibrate_vasicek_mle(call.rates, call.dt, call.opt)
    /\ pc' = "done"
    /\ UNCHANGED <<call, np_random, ref>>

CalNext == CallOls \/ CallMle

SpecCal == CalInit /\ [][CalNext]_vars

\* ------------------------------------------------------------------------
\* The likelihood objective evaluated at a point
\* ------------------------------------------------------------------------

\* The points the optimizer may try: inside the box, on its edges, and
\* outside it (a line search may step anywhere).
Triples ==
    {<<kappa, theta, sigma>> :
        kappa \in {-SCALE, 0, KAPPA_MIN, 500, 3000, KAPPA_MAX},
        theta \in {0, 30},
        sigma \in {-SIGMA_FLOOR, 0, SIGMA_MIN, SIGMA_FLOOR, SIGMA_MAX}}

LikCalls ==
    {[op |-> "neg_log_likelihood", x |-> x, rates |-> Series(h, MaxLen),
      dt |-> dt, numeric |-> a] :
        x \in Triples, h \in Histories, dt \in StepSizes,
        a \in {"finite", "overflow"}}

LikInit ==
    /\ pc = "ready"
    /\ call \in LikCalls
    /\ ret = Throws("")
    /\ np_random = <<>>
    /\ ref = <<>>

Evaluate ==
    /\ pc = "ready"
    /\ ret' = neg_log_likelihood(call.x, call.rates, call.dt, call.numeric)
    /\ pc' = "done"
    /\ UNCHANGED <<call, np_random, ref>>

LikNext == Evaluate

SpecLik == LikInit /\ [][LikNext]_vars

\* ------------------------------------------------------------------------
\* The simulation entry point called once
\* ------------------------------------------------------------------------

SimConfigs ==
    {[op |-> "run_monte_carlo_simulation", params |-> p, horizon |-> h,
      n_paths |-> n, dt |-> dt, method |-> "", seed |-> <<>>] :
        p \in ParamSets, h \in 0..MaxSteps, n \in 1..MaxPaths,
        dt \in {SCALE \div 4, SCALE}}

SimCalls ==
    {[c EXCEPT !.method = m, !.seed = s] :
        c \in SimConfigs, m \in Methods, s \in Seeds}

SimInit ==
    /\ pc = "ready"
    /\ call \in SimCalls
    /\ ret = SimRaised("", <<>>)
    /\ np_random = <<>>
    /\ ref = <<>>

CallRun ==
    /\ pc = "ready"
    /\ \E entropy \in Entropy :
        ret' = run_monte_carlo_simulation(call.params, call.horizon, call.n_paths,
                                          call.dt, call.method, call.seed, entropy,
                                          np_random)
    /\ np_random' = ret'.np_random
    /\ pc' = "done"
    /\ UNCHANGED <<call, ref>>

SimNext == CallRun

SpecSim == SimInit /\ [][SimNext]_vars

\* ------------------------------------------------------------------------
\* The simulation entry point called again and again by one process
\* ------------------------------------------------------------------------

RunsInit ==
    /\ pc = "ready"
    /\ call \in SimConfigs
    /\ ret = SimRaised("", <<>>)
    /\ np_random = <<>>
    /\ ref = <<>>

\* One more call with the configured parameters, horizon, path count and step
\* size, and any scheme and seed.  The caller may keep a seeded run's matrix
\* to compare later runs with; `between` says that another call was made
\* after the kept one and before the current one.
Kept(old, keep, method, seed, r) ==
    IF keep /\ seed # <<>>
    THEN <<[method |-> method, seed |-> seed, paths |-> r.paths,
            age |-> 0, between |-> FALSE]>>
    ELSE IF old # <<>>
         THEN <<[old[1] EXCEPT !.age = 1, !.between = (old[1].age = 1)]>>
         ELSE old

Rerun ==
    /\ \E method \in {"exact", "euler"}, seed \in Seeds, entropy \in Entropy :
        /\ call' = [call EXCEPT !.method = method, !.seed = seed]
        /\ ret' = run_monte_carlo_simulation(call.params, call.horizon, call.n_paths,
                                             call.dt, method, seed, entropy, np_random)
    /\ np_random' = ret'.np_random
    /\ \E keep \in BOOLEAN : ref' = Kept(ref, keep, call'.method, call'.seed, ret')
    /\ pc' = "done"

RunsNext == Rerun

SpecRuns == RunsInit /\ [][RunsNext]_vars

\* ------------------------------------------------------------------------
\* The two schemes driven by given draws
\* ------------------------------------------------------------------------

\* The values a draw may take, and the draw matrices of a run: z[t][j] is the
\* draw of step t for path j.
DrawValues == {-SCALE, 0, SCALE}

DrawMatrices(n_steps, n_paths) == [1..n_steps -> [1..n_paths -> DrawValues]]

\* The draws z with those of path k replaced by v at every step.
Redrawn(z, k, v) ==
    [t \in 1..Len(z) |-> [j \in 1..Len(z[t]) |-> IF j = k THEN v ELSE z[t][j]]]

\* A run of one scheme on the draws z, together with the run on the draws
\* in which path `other` was redrawn.
DrawCalls ==
    {[op |-> m, params |-> p, n_steps |-> n, n_paths |-> MaxPaths, dt |-> dt,
      z |-> z, other |-> k, redraw |-> v] :
        m \in {"simulate_vasicek_exact", "simulate_vasicek_euler"},
        p \in ParamSets, n \in {MaxSteps}, dt \in {SCALE \div 4, SCALE},
        z \in DrawMatrices(MaxSteps, MaxPaths), k \in 1..MaxPaths, v \in DrawValues}

DrawInit ==
    /\ pc = "ready"
    /\ call \in DrawCalls
    /\ ret = [paths |-> <<>>, redrawn |-> <<>>]
    /\ np_random = <<>>
    /\ ref = <<>>

StepExact ==
    /\ pc = "ready"
    /\ call.op = "simulate_vasicek_exact"
    /\ ret' = [paths   |-> ExactRows(call.params, call.n_steps, call.n_paths,
                                     call.dt, call.z),
               redrawn |-> ExactRows(call.params, call.n_steps, call.n_paths,
                                     call.dt, Redrawn(call.z, call.other, call.redraw))]
    /\ pc' = "done"
    /\ UNCHANGED <<call, np_random, ref>>

StepEuler ==
    /\ pc = "ready"
    /\ call.op = "simulate_vasicek_euler"
    /\ ret' = [paths   |-> EulerRows(call.params, call.n_steps, call.n_paths,
                                     call.dt, call.z),
               redrawn |-> EulerRows(call.params, call.n_steps, call.n_paths,
                                     call.dt, Redrawn(call.z, call.other, call.redraw))]
    /\ pc' = "done"
    /\ UNCHANGED <<call, np_random, ref>>

DrawNext == StepExact \/ StepEuler

SpecDraws == DrawInit /\ [][DrawNext]_vars

\* ------------------------------------------------------------------------
\* The consumers called on objects the caller owns
\* ------------------------------------------------------------------------

\* The objects of a caller: a rate series, a ParameterSet, a step size and a
\* trajectory matrix a simulator produced from them.
Owned ==
    {[rates  |-> Series(h, n),
      params |-> p,
      dt     |-> SCALE,
      paths  |-> simulate_vasicek_exact(p, steps, MaxPaths, SCALE, <<s>>, 0, <<>>).paths] :
        h \in Histories, n \in {2, MaxLen}, p \in ParamSets,
        steps \in 0..MaxSteps, s \in {7, 8}}

\* `ref` keeps what the objects were when the caller made them.
UseInit ==
    /\ pc = "ready"
    /\ call \in Owned
    /\ ret = [op |-> "", value |-> <<>>]
    /\ np_random = <<>>
    /\ ref = <<call>>

UseStatistics ==
    /\ pc = "ready"
    /\ ret' = [op    |-> "calculate_simulation_statistics",
               value |-> calculate_simulation_statistics(call.paths, call.params,
                                                         call.dt)]
    /\ call' = StatisticsLeaves(call)
    /\ pc' = "done"
    /\ UNCHANGED <<np_random, ref>>

UseDrawdown ==
    /\ pc = "ready"
    /\ ret' = [op |-> "calculate_max_drawdown",
               value |-> calculate_max_drawdown(call.paths)]
    /\ call' = DrawdownLeaves(call)
    /\ pc' = "done"
    /\ UNCHANGED <<np_random, ref>>

UseQuality ==
    /\ pc = "ready"
    /\ ret' = [op |-> "estimate_model_quality",
               value |-> estimate_model_quality(call.rates, call.params, call.dt)]
    /\ call' = QualityLeaves(call)
    /\ pc' = "done"
    /\ UNCHANGED <<np_random, ref>>

UseExact ==
    /\ pc = "ready"
    /\ ret' = [op |-> "simulate_vasicek_exact",
               value |-> simulate_vasicek_exact(call.params, Len(call.paths) - 1,
                                                MaxPaths, call.dt, <<>>, 5,
                                                np_random).paths]
    /\ call' = SimulatorLeaves(call)
    /\ pc' = "done"
    /\ UNCHANGED <<np_random, ref>>

UseEuler ==
    /\ pc = "ready"
    /\ ret' = [op |-> "simulate_vasicek_euler",
               value |-> simulate_vasicek_euler(call.params, Len(call.paths) - 1,
                                                MaxPaths, call.dt, <<>>, 5,
                                                np_random).paths]
    /\ call' = SimulatorLeaves(call)
    /\ pc' = "done"
    /\ UNCHANGED <<np_random, ref>>

UseNext == UseStatistics \/ UseDrawdown \/ UseQuality \/ UseExact \/ UseEuler

SpecUse == UseInit /\ [][UseNext]_vars

\* ------------------------------------------------------------------------
\* The loop of a scheme, pass by pass, beside one path run on its own
\* ------------------------------------------------------------------------

\* `ref` holds the rows of the matrix written so far (row 0 after the
\* allocation, one more after each pass of the loop); `ret` is a single path
\* followed on its own: the path j, its step t and its value.
LoopCalls ==
    {[op |-> m, params |-> p, n_steps |-> MaxSteps, n_paths |-> MaxPaths,
      dt |-> dt, z |-> z] :
        m \in {"simulate_vasicek_exact", "simulate_vasicek_euler"},
        p \in ParamSets, dt \in {SCALE \div 4, SCALE},
        z \in DrawMatrices(MaxSteps, MaxPaths)}

LoopInit ==
    /\ pc = "loop"
    /\ call \in LoopCalls
    /\ ret = [j |-> 1, t |-> 0, value |-> call.params.r0]
    /\ np_random = <<>>
    /\ ref = <<FirstRow(call.params.r0, call.n_paths)>>

\* One pass of `for t in range(1, n_steps + 1)` of the exact scheme.
ExactPass ==
    /\ call.op = "simulate_vasicek_exact"
    /\ Len(ref) <= call.n_steps
    /\ ref' = ExactLoop(ref, call.params, ExpKappaDt(call.params, call.dt),
                        StdDev(call.params, call.dt), call.z[Len(ref)])
    /\ UNCHANGED <<pc, call, ret, np_random>>

\* One pass of the loop of the Euler scheme.
EulerPass ==
    /\ call.op = "simulate_vasicek_euler"
    /\ Len(ref) <= call.n_steps
    /\ ref' = EulerLoop(ref, call.params, call.dt, Sqrt(call.dt), call.z[Len(ref)])
    /\ UNCHANGED <<pc, call, ret, np_random>>

\* The update of the scheme applied to one value with one draw.
ScalarUpdate(c, value, z) ==
    IF c.op = "simulate_vasicek_exact"
    THEN ExactStep(value, c.params.theta, ExpKappaDt(c.params, c.dt),
                   StdDev(c.params, c.dt), z)
    ELSE EulerStep(value, c.params.kappa, c.params.theta, c.params.sigma,
                   c.dt, Sqrt(c.dt), z)

\* The single path advances one step with its own draw z(t, j).
ScalarStep ==
    /\ ret.t < call.n_steps
    /\ ret' = [j     |-> ret.j,
               t     |-> ret.t + 1,
               value |-> ScalarUpdate(call, ret.value, call.z[ret.t + 1][ret.j])]
    /\ UNCHANGED <<pc, call, np_random, ref>>

\* The single path is finished; the next path starts from r0.
ScalarRestart ==
    /\ ret.t = call.n_steps
    /\ ret.j < call.n_paths
    /\ ret' = [j |-> ret.j + 1, t |-> 0, value |-> call.params.r0]
    /\ UNCHANGED <<pc, call, np_random, ref>>

LoopNext == ExactPass \/ EulerPass \/ ScalarStep \/ ScalarRestart

SpecLoop == LoopInit /\ [][LoopNext]_vars

\* ------------------------------------------------------------------------
\* A scheme drawing from its generator, pass by pass
\* ------------------------------------------------------------------------

\* `ref` is the generator of the call and the number of values taken from
\* it; `ret` holds the vectors drawn so far and the rows written so far.
StreamCalls ==
    {[op |-> m, params |-> p, n_steps |-> n, n_paths |-> k, dt |-> SCALE,
      seed |-> s, entropy |-> e] :
        m \in {"simulate_vasicek_exact", "simulate_vasicek_euler"},
        p \in ParamSets, n \in 0..MaxSteps, k \in 1..MaxPaths,
        s \in Seeds, e \in Entropy}

StreamInit ==
    /\ pc = "ready"
    /\ call \in StreamCalls
    /\ ret = [z |-> <<>>, paths |-> <<>>]
    /\ np_random = <<>>
    /\ ref = [rng |-> 0, drawn |-> 0]

\* np.random.seed(seed) when given, rng = np.random.default_rng(seed), and
\* the matrix allocated with row 0 set.
MakeGenerator ==
    /\ pc = "ready"
    /\ np_random' = SeedGlobal(np_random, call.seed)
    /\ ref' = [rng |-> default_rng(call.seed, call.entropy), drawn |-> 0]
    /\ ret' = [z |-> <<>>, paths |-> <<FirstRow(call.params.r0, call.n_paths)>>]
    /\ pc' = "loop"
    /\ UNCHANGED call

\* One pass of the loop of the exact scheme: the draw, then the row.
DrawExact ==
    /\ pc = "loop"
    /\ call.op = "simulate_vasicek_exact"
    /\ Len(ret.z) < call.n_steps
    /\ ret' = [z     |-> Append(ret.z, StandardNormal(ref.rng, call.n_paths)),
               paths |-> ExactLoop(ret.paths, call.params,
                                   ExpKappaDt(call.params, call.dt),
                                   StdDev(call.params, call.dt),
                                   StandardNormal(ref.rng, call.n_paths))]
    /\ ref' = [rng   |-> StreamAfter(ref.rng, call.n_paths),
               drawn |-> ref.drawn + call.n_paths]
    /\ UNCHANGED <<pc, call, np_random>>

\* One pass of the loop of the Euler scheme.
DrawEuler ==
    /\ pc = "loop"
    /\ call.op = "simulate_vasicek_euler"
    /\ Len(ret.z) < call.n_steps
    /\ ret' = [z     |-> Append(ret.z, StandardNormal(ref.rng, call.n_paths)),
               paths |-> EulerLoop(ret.paths, call.params, call.dt, Sqrt(call.dt),
                                   StandardNormal(ref.rng, call.n_paths))]
    /\ ref' = [rng   |-> StreamAfter(ref.rng, call.n_paths),
               drawn |-> ref.drawn + call.n_paths]
    /\ UNCHANGED <<pc, call, np_random>>

\* return paths
ReturnPaths ==
    /\ pc = "loop"
    /\ Len(ret.z) = call.n_steps
    /\ pc' = "done"
    /\ UNCHANGED <<call, ret, np_random, ref>>

StreamNext == MakeGenerator \/ DrawExact \/ DrawEuler \/ ReturnPaths

SpecStream == StreamInit /\ [][StreamNext]_vars

\* ------------------------------------------------------------------------
\* The path statistics on given matrices
\* ------------------------------------------------------------------------

\* The matrices a run can hand to the statistics: row 0 holds r0 in every
\* column, every later cell is any rate.
StartValues == {-20, 30}

CellValues == {-20, 0, 10, 30, 50}

Matrices(n_steps, n_paths) ==
    {[t \in 1..(n_steps + 1) |->
        [j \in 1..n_paths |-> IF t = 1 THEN r0 ELSE m[t - 1][j]]] :
            r0 \in StartValues, m \in [1..n_steps -> [1..n_paths -> CellValues]]}

StatCalls ==
    {[op |-> o, paths |-> m, dt |-> SCALE] :
        o \in {"calculate_simulation_statistics", "calculate_max_drawdown"},
        m \in Matrices(MaxSteps, MaxPaths)}

StatInit ==
    /\ pc = "ready"
    /\ call \in StatCalls
    /\ ret = [op |-> "", value |-> <<>>, drawdowns |-> <<>>]
    /\ np_random = <<>>
    /\ ref = <<>>

\* The statistics of the matrix, under the parameters it started from.
MeasureStatistics ==
    /\ pc = "ready"
    /\ call.op = "calculate_simulation_statistics"
    /\ ret' = [op    |-> call.op,
               value |-> calculate_simulation_statistics(
                             call.paths,
                             VasicekParams(500, 30, 10, call.paths[1][1]),
                             call.dt),
               drawdowns |-> <<>>]
    /\ pc' = "done"
    /\ UNCHANGED <<call, np_random, ref>>

\* The mean drawdown, with the list `drawdowns` as it stands at the return.
MeasureDrawdown ==
    /\ pc = "ready"
    /\ call.op = "calculate_max_drawdown"
    /\ ret' = [op    |-> call.op,
               value |-> calculate_max_drawdown(call.paths),
               drawdowns |-> [i \in 1..Len(call.paths[1]) |->
                                PathDrawdown(call.paths, i)]]
    /\ pc' = "done"
    /\ UNCHANGED <<call, np_random, ref>>

StatNext == MeasureStatistics \/ MeasureDrawdown

SpecStat == StatInit /\ [][StatNext]_vars

\* ------------------------------------------------------------------------
\* The data loader called on what the network and the disk hold
\* ------------------------------------------------------------------------

\* The ways a candidate request can fail.
Failures == {"http_error", "no_columns", "exception"}

\* What each candidate request meets, and whether the CSV can be read.
Sources ==
    {[api |-> <<x, y>>, csv |-> c] :
        x \in {"ok"} \cup Failures, y \in {"ok"} \cup Failures,
        c \in {"ok", "missing"}}

\* The rates behind the sources, as decimal fractions: a reversion around
\* 3.3%, a rise from 1.2% to 3.4%, and the start of that rise, below 2%.
Fractions == {Series("revert", 11), Series("ramp", 11), Series("ramp", 4)}

\* A series as a source quotes it: in fractions (quote 1) or in percent.
Quoted(decimal, quote) == [i \in 1..Len(decimal) |-> quote * decimal[i]]

LoadCalls ==
    {[op |-> "load_with_fallback", decimal |-> d, quote |-> q,
      world |-> [api |-> src.api, csv |-> src.csv, rows |-> Quoted(d, q)]] :
        src \in Sources, d \in Fractions, q \in {1, PERCENT}}

LoadInit ==
    /\ pc = "ready"
    /\ call \in LoadCalls
    /\ ret = LoadRaised("", <<>>)
    /\ np_random = <<>>
    /\ ref = <<>>

CallLoad ==
    /\ pc = "ready"
    /\ ret' = load_with_fallback(call.world)
    /\ pc' = "done"
    /\ UNCHANGED <<call, np_random, ref>>

LoadNext == CallLoad

SpecLoad == LoadInit /\ [][LoadNext]_vars

\* ------------------------------------------------------------------------
\* main: one run of the pipeline from the command line
\* ------------------------------------------------------------------------

\* What the network and the disk may hold: what each candidate request
\* meets, whether the CSV can be read, and the rates delivered.  What lies
\* behind the first success is not looked at and is held fixed.
Feeds ==
    {[history |-> "revert", n |-> 11, quote |-> 1],
     [history |-> "revert", n |-> 11, quote |-> PERCENT],
     [history |-> "flat",   n |-> 10, quote |-> 1],
     [history |-> "revert", n |-> 5,  quote |-> 1]}

FeedRows(f) == [i \in 1..f.n |-> f.quote * Observation(f.history, i)]

Worlds ==
    {[api |-> a, csv |-> c, rows |-> FeedRows(f)] :
        a \in {<<"ok", "ok">>} \cup {<<x, "ok">> : x \in Failures},
        c \in {"ok"}, f \in Feeds}
    \cup
    {[api |-> <<x, y>>, csv |-> c, rows |-> FeedRows(f)] :
        x \in Failures, y \in Failures, c \in {"ok", "missing"}, f \in Feeds}

\* Command lines.
CommandLines ==
    {[op |-> "main", calibration |-> c, method |-> m, seed |-> s, horizon |-> h,
      n_paths |-> MaxPaths, dt |-> SCALE, show_quality |-> q,
      export_csv |-> x, export_stats |-> x] :
        c \in CalibrationChoices \cup {"xyz"}, m \in MethodChoices \cup {"milstein"},
        s \in {<<>>, <<7>>}, h \in {0, MaxSteps}, q \in BOOLEAN, x \in BOOLEAN}

\* What a run has produced so far: the stages entered, in order, and their
\* results; exit is -1 while the process runs.
Fresh ==
    [stages |-> <<>>, data |-> <<>>, params |-> <<>>, sim |-> <<>>,
     files |-> {}, exit |-> -1, error |-> ""]

MainInit ==
    /\ pc = "parse"
    /\ call \in CommandLines
    /\ ret = Fresh
    /\ np_random = <<>>
    /\ ref = <<>>

\* An except clause that reports the error and lets the process end normally.
FailQuietly(run, e) == [run EXCEPT !.exit = 0, !.error = e]

\* The except clause of main: report and sys.exit(1).
Fail(run, e) == [run EXCEPT !.exit = EXIT_FAILURE, !.error = e]

ParseArguments ==
    /\ pc = "parse"
    /\ LET args == parse_arguments(call)
       IN  IF args.raised
           THEN /\ pc' = "exited"
                /\ ret' = [ret EXCEPT !.exit = args.exit,
                                      !.error = "argparse: invalid choice"]
           ELSE /\ pc' = "load"
                /\ ret' = ret
    /\ UNCHANGED <<call, np_random, ref>>

\* The run after the loading stage.
LoadedRun(run, got) ==
    IF got.raised
    THEN Fail([run EXCEPT !.stages = Append(@, "load_with_fallback")], got.error)
    ELSE [run EXCEPT !.stages = Append(@, "load_with_fallback"), !.data = <<got>>]

LoadData ==
    /\ pc = "load"
    /\ \E world \in Worlds : ret' = LoadedRun(ret, load_with_fallback(world))
    /\ pc' = IF ret'.exit # -1 THEN "exited" ELSE "calibrate"
    /\ UNCHANGED <<call, np_random, ref>>

\* "2. Calibration du modele": the strategy the command line selects.
RunCalibration(args, rates, opt) ==
    IF args.calibration = "mle"
    THEN [name |-> "calibrate_vasicek_mle",
          got  |-> calibrate_vasicek_mle(rates, args.dt, opt)]
    ELSE [name |-> "calibrate_vasicek_ols",
          got  |-> calibrate_vasicek_ols(rates, args.dt)]

\* The run after the calibration stage.
Calibrated(run, cal) ==
    IF cal.got.raised
    THEN Fail([run EXCEPT !.stages = Append(@, cal.name)], cal.got.error)
    ELSE [run EXCEPT !.stages = Append(@, cal.name), !.params = cal.got.params]

Calibrate ==
    /\ pc = "calibrate"
    /\ \E opt \in Optimizer :
        ret' = Calibrated(ret, RunCalibration(call, ret.data[1].rates, opt))
    /\ pc' = IF ret'.exit # -1 THEN "exited"
             ELSE IF call.show_quality THEN "quality" ELSE "simulate"
    /\ UNCHANGED <<call, np_random, ref>>

ShowQuality ==
    /\ pc = "quality"
    /\ ret' = [ret EXCEPT !.stages = Append(@, "estimate_model_quality")]
    /\ pc' = "simulate"
    /\ UNCHANGED <<call, np_random, ref>>

\* The run after the simulation stage.
Simulated(run, got) ==
    IF got.raised
    THEN Fail([run EXCEPT !.stages = Append(@, "run_monte_carlo_simulation")], got.error)
    ELSE [run EXCEPT !.stages = Append(@, "run_monte_carlo_simulation"),
                     !.sim = <<got>>]

Simulate ==
    /\ pc = "simulate"
    /\ \E entropy \in Entropy :
        ret' = Simulated(ret, run_monte_carlo_simulation(ret.params[1], call.horizon,
                                call.n_paths, call.dt, call.method, call.seed,
                                entropy, np_random))
    /\ np_random' = IF ret'.sim # <<>> THEN ret'.sim[1].np_random ELSE np_random
    /\ pc' = IF ret'.exit # -1 THEN "exited" ELSE "export"
    /\ UNCHANGED <<call, ref>>

\* "6. Exports": the CSV export, then the statistics export, each when the
\* command line asks for it; either may raise when the disk refuses the
\* file (disk.csv, disk.json say whether the file can be written), which
\* ends the run in the except clause with what was written before.
ExportedCsv(run, args, disk) ==
    IF ~args.export_csv THEN run
    ELSE IF disk.csv
         THEN [run EXCEPT !.stages = Append(@, "export"), !.files = @ \cup {"csv"}]
         ELSE Fail([run EXCEPT !.stages = Append(@, "export")], "OSError")

ExportedStats(run, args, disk) ==
    IF run.exit # -1 THEN run
    ELSE IF ~args.export_stats THEN [run EXCEPT !.exit = 0]
    ELSE IF disk.json
         THEN [run EXCEPT !.stages = IF args.export_csv THEN @ ELSE Append(@, "export"),
                          !.files = @ \cup {"json"}, !.exit = 0]
         ELSE Fail([run EXCEPT !.stages = IF args.export_csv THEN @
                                          ELSE Append(@, "export")], "OSError")

Exported(run, args, disk) == ExportedStats(ExportedCsv(run, args, disk), args, disk)

Export ==
    /\ pc = "export"
    /\ \E disk \in [csv : BOOLEAN, json : BOOLEAN] : ret' = Exported(ret, call, disk)
    /\ pc' = "exited"
    /\ UNCHANGED <<call, np_random, ref>>

Next == ParseArguments \/ LoadData \/ Calibrate \/ ShowQuality \/ Simulate \/ Export

Spec == MainInit /\ [][Next]_vars

\* ------------------------------------------------------------------------
\* Properties of the calibrator (under SpecCal)
\* ------------------------------------------------------------------------

InsufficientData(r) == r.raised /\ r.error = "ValueError: too short"

\* C1: on a series of fewer than 10 observations both calibrate_vasicek_ols
\* and calibrate_vasicek_mle end in the insufficient-data error raised to the
\* caller, return no ParameterSet, and have run neither the regression nor
\* the optimizer before raising.
C1_ShortSeriesRaises ==
    (pc = "done" /\ Len(call.rates) < 10)
        => /\ InsufficientData(ret)
           /\ ret.params = <<>>
           /\ ret.log = <<>>

C1_Witness ==
    /\ pc = "done"
    /\ call.op = "calibrate_vasicek_mle"
    /\ Len(call.rates) = 9
    /\ call.opt.outcome = "success"
    /\ InsufficientData(ret)

\* C2: the two strategies share one length contract: each signals
\* insufficient data exactly when the series has fewer than 10 observations,
\* so a series of exactly 10 observations is accepted by both.
C2_SharedLengthContract ==
    pc = "done" => (InsufficientData(ret) <=> Len(call.rates) < 10)

\* C3: on a series of at least 10 observations calibrate_vasicek_mle never
\* raises to the caller: whether the optimizer converges, reports
\* non-convergence or throws, the call returns a ParameterSet.
C3_MleNeverRaises ==
    (pc = "done" /\ call.op = "calibrate_vasicek_mle" /\ Len(call.rates) >= 10)
        => (~ret.raised /\ Len(ret.params) = 1)

\* C4: every ParameterSet a calibration call returns (the regression, the
\* likelihood strategy on convergence or after falling back) has kappa > 0
\* and sigma > 0, for every accepted series and every dt > 0.
C4_ReturnedParamsPositive ==
    (pc = "done" /\ ~ret.raised)
        => (ret.params[1].kappa > 0 /\ ret.params[1].sigma > 0)

C4_Witness ==
    /\ pc = "done"
    /\ call.op = "calibrate_vasicek_mle"
    /\ call.opt.outcome = "failure"
    /\ call.rates = Series("flat", 11)
    /\ ~ret.raised
    /\ ret.params[1].sigma = SIGMA_FLOOR
    /\ ret.params[1].kappa > 0

\* ------------------------------------------------------------------------
\* Properties of the simulation entry point (under SpecSim and SpecRuns)
\* ------------------------------------------------------------------------

\* C5: for both schemes, every steps >= 0 and paths >= 1, the matrix has
\* steps + 1 rows of paths columns and every cell of row 0 equals r0; with
\* steps = 0 it is that single row.
C5_ShapeAndFirstRow ==
    (pc = "done" /\ ~ret.raised)
        => /\ Len(ret.paths) = call.horizon + 1
           /\ \A t \in 1..Len(ret.paths) : Len(ret.paths[t]) = call.n_paths
           /\ \A j \in 1..call.n_paths : ret.paths[1][j] = call.params.r0

C5_Witness ==
    /\ pc = "done"
    /\ call.method = "euler"
    /\ call.horizon = 0
    /\ call.n_paths = 2
    /\ ret.paths = << <<call.params.r0, call.params.r0>> >>

\* C6: two runs with the same ParameterSet, dt, step count, path count,
\* scheme and the same integer seed yield the same matrix cell for cell,
\* whatever calls were made before or between them.
C6_SeededRunsAgree ==
    (/\ pc = "done"
     /\ ref # <<>>
     /\ call.seed # <<>>
     /\ call.seed = ref[1].seed
     /\ call.method = ref[1].method)
        => ret.paths = ref[1].paths

C6_Witness ==
    /\ pc = "done"
    /\ ref # <<>>
    /\ ref[1].between
    /\ call.seed = <<7>>
    /\ ref[1].seed = <<7>>
    /\ call.method = "exact"
    /\ ref[1].method = "exact"
    /\ call.horizon = 2
    /\ ret.paths = ref[1].paths

\* C7 as stated: run_monte_carlo_simulation raises the invalid-method error,
\* producing neither a matrix nor statistics, exactly when the selector is
\* not one of the names 'exact' and 'euler'.
C7_RaisesIffNotExactName ==
    pc = "done" => (ret.raised <=> call.method \notin {"exact", "euler"})

\* The selectors that read 'exact' or 'euler' when case is ignored.
AnyCase == {"exact", "Exact", "EXACT", "euler", "Euler"}

\* C7 (amended): run_monte_carlo_simulation raises the invalid-method error
\* exactly when the selector, compared without regard to case, is neither
\* 'exact' nor 'euler'; it is the only error of the entry point, and it is
\* raised with no matrix, no statistics and no generator seeded.
C7_RaisesIffUnrecognized ==
    pc = "done"
        => /\ ret.raised <=> call.method \notin AnyCase
           /\ ret.raised => /\ ret.error = "ValueError: unknown method"
                            /\ ret.paths = <<>>
                            /\ ret.stats = <<>>
                            /\ np_random = <<>>

C7_Witness ==
    /\ pc = "done"
    /\ call.method = "milstein"
    /\ call.seed = <<7>>
    /\ ret.raised
    /\ ret.paths = <<>>

\* C9: the horizon of the theoretical terminal mean and deviation is
\* T = steps * dt with steps the number of simulated increments; for a
\* zero-step matrix T = 0, the theoretical mean is r0 and the deviation 0.
C9_HorizonIsStepsTimesDt ==
    (pc = "done" /\ ~ret.raised)
        => /\ ret.stats[1].validation.theoretical_terminal_mean
                = TheoreticalMean(call.params, call.horizon * call.dt)
           /\ ret.stats[1].validation.theoretical_terminal_std
                = SqrtSq(TheoreticalVar(call.params, call.horizon * call.dt))
           /\ call.horizon = 0
                => /\ ret.stats[1].validation.theoretical_terminal_mean = call.params.r0
                   /\ ret.stats[1].validation.theoretical_terminal_std = 0

\* C10: simulation_info echoes the run: n_paths is the number of columns,
\* n_steps the step count passed in, dt the step size, and total_time_years
\* equals n_steps * dt.
C10_InfoEchoesRun ==
    (pc = "done" /\ ~ret.raised)
        => LET info == ret.stats[1].simulation_info
           IN  /\ info.n_paths = call.n_paths
               /\ info.n_steps = call.horizon
               /\ info.dt = call.dt
               /\ info.total_time_years = info.n_steps * info.dt

\* ------------------------------------------------------------------------
\* Properties of the pipeline (under Spec)
\* ------------------------------------------------------------------------

CalibrationStages == {"calibrate_vasicek_ols", "calibrate_vasicek_mle"}

\* C8: a calibration selector that is neither 'ols' nor 'mle' is surfaced
\* as an error and never recovered: the run ends with a non-zero status
\* without entering a calibration strategy, the regression included.
C8_UnknownCalibrationSurfaced ==
    call.calibration \notin {"ols", "mle"}
        => /\ \A i \in 1..Len(ret.stages) : ret.stages[i] \notin CalibrationStages
           /\ ret.params = <<>>
           /\ pc # "parse" => (pc = "exited" /\ ret.exit > 0 /\ ret.error # "")

C8_Witness ==
    /\ pc = "exited"
    /\ call.calibration = "xyz"
    /\ call.method = "exact"
    /\ ret.exit = 2
    /\ ret.stages = <<>>

\* ------------------------------------------------------------------------
\* Further properties of the calibrator (under SpecCal)
\* ------------------------------------------------------------------------

\* C11: the r0 of every ParameterSet a calibration call returns is the last
\* observation of the input series: for the regression, for the likelihood
\* strategy on convergence, and for the likelihood strategy after fallback.
C11_R0IsLastObservation ==
    (pc = "done" /\ ~ret.raised)
        => ret.params[1].r0 = call.rates[Len(call.rates)]

C11_Witness ==
    /\ pc = "done"
    /\ call.op = "calibrate_vasicek_mle"
    /\ call.opt.outcome = "success"
    /\ call.rates = Series("ramp", MaxLen)
    /\ ret.params[1].r0 = 34
    /\ ret.params[1].r0 # call.rates[1]

\* The slope fitted on a series, and the slope the mapping has to use: the
\* nearest of 0.001 and 0.999 when the fitted slope is outside (0, 1).
FittedSlope(r) == Lstsq(AllButLast(r), AllButFirst(r))[2]

FittedIntercept(r) == Lstsq(AllButLast(r), AllButFirst(r))[1]

NearestInside(b) == IF b <= 0 THEN 1 ELSE IF b >= SCALE THEN 999 ELSE b

\* C20: in the regression a fitted slope b <= 0 is replaced by 0.001, a
\* fitted slope b >= 1 by 0.999, and a slope strictly inside (0, 1) is used
\* unchanged; so the slope used for kappa and theta lies strictly inside
\* (0, 1) and the mapped kappa = -ln(b) / dt is strictly positive.
C20_SlopeClamped ==
    (pc = "done" /\ call.op = "calibrate_vasicek_ols" /\ ~ret.raised)
        => /\ ClampSlope(FittedSlope(call.rates)) = NearestInside(FittedSlope(call.rates))
           /\ NearestInside(FittedSlope(call.rates)) > 0
           /\ NearestInside(FittedSlope(call.rates)) < SCALE
           /\ Div(NegLog(NearestInside(FittedSlope(call.rates))), call.dt) > 0
           /\ ret.params[1].kappa
                = Div(NegLog(NearestInside(FittedSlope(call.rates))), call.dt)
           /\ ret.params[1].theta
                = Div(FittedIntercept(call.rates),
                      SCALE - NearestInside(FittedSlope(call.rates)))

C20_Witness ==
    /\ pc = "done"
    /\ call.op = "calibrate_vasicek_ols"
    /\ call.rates = Series("zigzag", 12)
    /\ FittedSlope(call.rates) <= 0
    /\ call.dt = SCALE
    /\ ~ret.raised
    /\ ret.params[1].kappa = Div(NegLog(1), SCALE)

\* ------------------------------------------------------------------------
\* Further properties of the simulators
\* ------------------------------------------------------------------------

\* C12: a simulation call shares no mutable state with its environment:
\* seeded or not, it leaves the process-wide random generator as it found
\* it, so the caller's own later draws do not depend on whether a
\* simulation ran in between.
C12_GlobalGeneratorUntouched == [][np_random' = np_random]_vars

\* ------------------------------------------------------------------------
\* Properties of the consumers (under SpecUse)
\* ------------------------------------------------------------------------

\* C13: the consumers are read-only: the statistics operation and the
\* drawdown leave every cell of the trajectory matrix as it was, and the
\* simulators, the statistics operation and estimate_model_quality leave the
\* four fields of the ParameterSet and the input series as they were.
C13_ConsumersReadOnly ==
    [][/\ call'.paths = call.paths
       /\ call'.params = call.params
       /\ call'.rates = call.rates]_vars

C13_Witness ==
    /\ pc = "done"
    /\ ret.op = "calculate_simulation_statistics"
    /\ Len(call.paths) = 3
    /\ call.paths[3][1] # call.paths[3][2]
    /\ ret.value.terminal.min # ret.value.terminal.max
    /\ call = ref[1]

\* ------------------------------------------------------------------------
\* Properties of the two schemes (under SpecDraws)
\* ------------------------------------------------------------------------

\* Cell (t, j) of a matrix, t = 0 being the first row.
Cell(paths, t, j) == paths[t + 1][j]

\* C14: path independence: in both schemes column j is a function of the
\* ParameterSet, dt and the draws of path j only; redrawing any other path k
\* leaves column j as it was at every row.
C14_PathsIndependent ==
    pc = "done"
        => \A j \in 1..call.n_paths :
              j # call.other
                => \A t \in 0..call.n_steps :
                      Cell(ret.paths, t, j) = Cell(ret.redrawn, t, j)

C14_Witness ==
    /\ pc = "done"
    /\ call.op = "simulate_vasicek_euler"
    /\ call.other = 1
    /\ Cell(ret.paths, call.n_steps, 1) # Cell(ret.redrawn, call.n_steps, 1)
    /\ Cell(ret.paths, call.n_steps, 2) = Cell(ret.redrawn, call.n_steps, 2)
    /\ Cell(ret.paths, call.n_steps, 2) # Cell(ret.paths, 0, 2)

\* The step recurrence of the scheme of the call, applied to prev with draw z.
Recurrence(prev, z) ==
    IF call.op = "simulate_vasicek_exact"
    THEN ExactStep(prev, call.params.theta, ExpKappaDt(call.params, call.dt),
                   StdDev(call.params, call.dt), z)
    ELSE EulerStep(prev, call.params.kappa, call.params.theta, call.params.sigma,
                   call.dt, Sqrt(call.dt), z)

\* C15: neither scheme reflects, clamps or absorbs at zero: where the step
\* recurrence starts from a negative rate or lands on one, the next cell is
\* the unmodified recurrence applied to the previous cell; and a negative
\* rate is reachable from a positive r0.
C15_NoBarrierAtZero ==
    pc = "done"
        => \A t \in 1..call.n_steps, j \in 1..call.n_paths :
              (\/ Cell(ret.paths, t - 1, j) < 0
               \/ Recurrence(Cell(ret.paths, t - 1, j), call.z[t][j]) < 0)
                => Cell(ret.paths, t, j)
                      = Recurrence(Cell(ret.paths, t - 1, j), call.z[t][j])

C15_Witness ==
    /\ pc = "done"
    /\ call.op = "simulate_vasicek_exact"
    /\ call.params.r0 > 0
    /\ Cell(ret.paths, 0, 1) > 0
    /\ Cell(ret.paths, 1, 1) < 0
    /\ Cell(ret.paths, 2, 1) < Cell(ret.paths, 1, 1)

\* C18: the recurrence of the exact scheme: for every step t and path j,
\* cell (t, j) = theta + (cell (t-1, j) - theta) * E + S * z(t, j) with
\* E = exp(-kappa dt) and S = sqrt(sigma^2 (1 - exp(-2 kappa dt)) / (2 kappa))
\* the same at every step, and z(t, j) the one draw of that step and path.
C18_ExactRecurrence ==
    (pc = "done" /\ call.op = "simulate_vasicek_exact")
        => \A t \in 1..call.n_steps, j \in 1..call.n_paths :
              Cell(ret.paths, t, j)
                = call.params.theta
                    + Mul(Cell(ret.paths, t - 1, j) - call.params.theta,
                          ExpNeg(Mul(call.params.kappa, call.dt)))
                    + Mul(SqrtSq(Rnd(call.params.sigma * call.params.sigma
                                       * (SCALE - ExpNeg(Mul(2 * call.params.kappa,
                                                             call.dt))),
                                     2 * call.params.kappa)),
                          call.z[t][j])

C18_Witness ==
    /\ pc = "done"
    /\ call.op = "simulate_vasicek_exact"
    /\ call.params.r0 # call.params.theta
    /\ call.z[1] = <<SCALE, -SCALE>>
    /\ call.z[2][1] = -SCALE
    /\ Cell(ret.paths, 1, 1) > Cell(ret.paths, 1, 2)
    /\ Cell(ret.paths, 2, 1) # Cell(ret.paths, 1, 1)

\* The distance of a rate to theta.
Distance(r) == Abs(r - call.params.theta)

\* The drift kappa dt (theta - prev) is at least two thousandths, so that
\* the rounding of the two products to thousandths does not hide it.
Resolved(prev, kdt) == Distance(prev) * kdt >= 2 * SCALE

\* C19: the recurrence of the Euler scheme: for every step t and path j,
\* cell (t, j) = prev + kappa (theta - prev) dt + sigma sqrt(dt) z(t, j) with
\* prev = cell (t-1, j); with a zero draw the distance to theta is multiplied
\* by (1 - kappa dt) (to within one thousandth, the rounding of the
\* products), so it shrinks when 0 < kappa dt < 2 and grows when kappa dt > 2.
C19_EulerRecurrence ==
    (pc = "done" /\ call.op = "simulate_vasicek_euler")
        => \A t \in 1..call.n_steps, j \in 1..call.n_paths :
              LET prev == Cell(ret.paths, t - 1, j)
                  next == Cell(ret.paths, t, j)
                  kdt  == Mul(call.params.kappa, call.dt)
              IN  /\ next = prev
                              + Mul(Mul(call.params.kappa, call.params.theta - prev),
                                    call.dt)
                              + Mul(Mul(call.params.sigma, Sqrt(call.dt)),
                                    call.z[t][j])
                  /\ (call.z[t][j] = 0 /\ Resolved(prev, kdt))
                        => /\ Abs((next - call.params.theta)
                                    - Mul(prev - call.params.theta, SCALE - kdt)) <= 1
                           /\ (0 < kdt /\ kdt < 2 * SCALE)
                                => Distance(next) < Distance(prev)
                           /\ kdt > 2 * SCALE => Distance(next) > Distance(prev)

C19_Witness ==
    /\ pc = "done"
    /\ call.op = "simulate_vasicek_euler"
    /\ Mul(call.params.kappa, call.dt) > 2 * SCALE
    /\ call.z[1][1] = 0
    /\ call.z[2][1] = 0
    /\ Distance(Cell(ret.paths, 0, 1)) > 0
    /\ Distance(Cell(ret.paths, 2, 1)) > Distance(Cell(ret.paths, 1, 1))
    /\ Distance(Cell(ret.paths, 1, 1)) > Distance(Cell(ret.paths, 0, 1))

\* ------------------------------------------------------------------------
\* Further properties of the pipeline (under Spec)
\* ------------------------------------------------------------------------

\* The place of a stage in the order load, calibrate, (quality), simulate
\* with its statistics, export.
Rank(stage) ==
    CASE stage = "load_with_fallback"         -> 1
      [] stage \in CalibrationStages          -> 2
      [] stage = "estimate_model_quality"     -> 3
      [] stage = "run_monte_carlo_simulation" -> 4
      [] OTHER                                -> 5

Entered(run, rank) == \E i \in 1..Len(run.stages) : Rank(run.stages[i]) = rank

\* C16: in every run of main the stages execute in the order load data,
\* calibrate, simulate, compute statistics, export: the simulator is invoked
\* only with the ParameterSet of a completed calibration, export happens
\* only after statistics exist, and a failure in a stage ends the run with
\* exit status 1 without any later stage.
C16_StagesInOrder ==
    /\ \A i \in 1..Len(ret.stages), k \in 1..Len(ret.stages) :
          i < k => Rank(ret.stages[i]) < Rank(ret.stages[k])
    /\ Entered(ret, 2) => (Entered(ret, 1) /\ ret.data # <<>>)
    /\ Entered(ret, 3) => (Entered(ret, 2) /\ ret.params # <<>>)
    /\ Entered(ret, 4) => (Entered(ret, 2) /\ ret.params # <<>>)
    /\ ret.sim # <<>>
          => /\ Entered(ret, 4)
             /\ ret.sim[1].stats # <<>>
             /\ ret.sim[1].paths[1][1] = ret.params[1].r0
    /\ (Entered(ret, 5) \/ ret.files # {}) => (Entered(ret, 4) /\ ret.sim # <<>>)
    /\ (ret.error # "" /\ ret.stages # <<>>)
          => /\ ret.exit = 1
             /\ pc = "exited"
             /\ "json" \notin ret.files
             /\ Rank(ret.stages[Len(ret.stages)]) = 1 => ret.data = <<>>
             /\ Rank(ret.stages[Len(ret.stages)]) = 2 => ret.params = <<>>
             /\ Rank(ret.stages[Len(ret.stages)]) = 4 => ret.sim = <<>>
    /\ (pc = "exited" /\ ret.exit = 0) => (ret.error = "" /\ ret.sim # <<>>)

C16_Witness ==
    /\ pc = "exited"
    /\ ret.exit = 1
    /\ ret.stages = <<"load_with_fallback", "calibrate_vasicek_mle">>
    /\ ret.data # <<>>
    /\ ret.params = <<>>
    /\ ret.sim = <<>>
    /\ call.export_csv

\* ------------------------------------------------------------------------
\* Properties of the data loader (under SpecLoad)
\* ------------------------------------------------------------------------

\* C17: every rate series the loader returns is in decimal fractions:
\* whichever source supplied it (a candidate series of the API or the CSV
\* fallback) and whatever the level of the rates, percent-quoted input is
\* converted to fractions before it is returned.
C17_RatesAreDecimal ==
    (pc = "done" /\ ~ret.raised) => ret.rates = call.decimal

\* ------------------------------------------------------------------------
\* Properties of the likelihood objective (under SpecLik)
\* ------------------------------------------------------------------------

\* The transition variance the objective computes at the point of the call.
VarAt(c) == TransitionVar(c.x[1], c.x[3], ExpNeg(Mul(c.x[1], c.dt)))

\* C21: the likelihood objective is total and never raises: at every triple
\* (kappa, theta, sigma) it returns the negated sum of the n - 1 per-step
\* log-density terms or the penalty 1e10, and it returns the penalty
\* whenever kappa <= 0, sigma <= 0 or the transition variance is <= 0.
C21_ObjectiveTotal ==
    pc = "done"
        => /\ ~ret.raised
           /\ (call.x[1] <= 0 \/ call.x[3] <= 0) => ret.penalty
           /\ (call.x[1] > 0 /\ call.x[3] > 0 /\ VarAt(call) <= 0) => ret.penalty
           /\ ~ret.penalty
                => ret.value
                     = -SumSeq([i \in 1..(Len(call.rates) - 1) |->
                           LogDensity(call.rates, i, call.x[2],
                                      ExpNeg(Mul(call.x[1], call.dt)), VarAt(call))])

C21_Witness ==
    /\ pc = "done"
    /\ call.x[1] > 0
    /\ call.x[3] > 0
    /\ call.numeric = "overflow"
    /\ ret.penalty
    /\ ~ret.raised

\* ------------------------------------------------------------------------
\* The optimizer's box (under SpecCal)
\* ------------------------------------------------------------------------

\* The likelihood strategy returned the optimizer's point.
Converged ==
    /\ pc = "done"
    /\ call.op = "calibrate_vasicek_mle"
    /\ call.opt.outcome = "success"
    /\ ~ret.raised

\* C22: whenever calibrate_vasicek_mle returns the optimizer's result, the
\* parameters lie inside the box: 0.001 <= kappa <= 10,
\* min(series) - 0.01 <= theta <= max(series) + 0.01 and
\* 0.001 <= sigma <= 1, even when the regression estimate the optimizer
\* started from lies outside the box.
C22_ResultInsideBox ==
    Converged
        => /\ 1 <= ret.params[1].kappa /\ ret.params[1].kappa <= 10 * SCALE
           /\ MinSeq(call.rates) - 10 <= ret.params[1].theta
           /\ ret.params[1].theta <= MaxSeq(call.rates) + 10
           /\ 1 <= ret.params[1].sigma /\ ret.params[1].sigma <= SCALE

C22_Witness ==
    /\ Converged
    /\ call.opt.pick = "start"
    /\ call.rates = Series("ramp", MaxLen)
    /\ calibrate_vasicek_ols(call.rates, call.dt).params[1].theta
          > MaxSeq(call.rates) + 10
    /\ ret.params[1].theta = MaxSeq(call.rates) + 10

\* ------------------------------------------------------------------------
\* The sign statistic and the drawdown (under SpecStat)
\* ------------------------------------------------------------------------

\* The paths with a strictly negative cell at some row 0..terminal, and
\* those whose terminal cell is strictly negative.
PathsEverNegative(paths) ==
    {j \in 1..Len(paths[1]) : \E t \in 0..(Len(paths) - 1) : Cell(paths, t, j) < 0}

PathsNegativeAtMaturity(paths) ==
    {j \in 1..Len(paths[1]) : Cell(paths, Len(paths) - 1, j) < 0}

Measured(op) == pc = "done" /\ ret.op = op

\* v is |hits| / n to the nearest unit of the scale.
IsShare(v, hits, n) == 2 * Abs(v * n - SCALE * Cardinality(hits)) <= n

\* C23: the negative-rate statistic is the fraction of the paths that have at
\* least one strictly negative cell at any row from row 0 to the terminal
\* row; it is never smaller than the fraction of the paths whose terminal
\* value is negative, and it is 1 for every path set when r0 < 0.
C23_CountsEverNegative ==
    Measured("calculate_simulation_statistics")
        => /\ IsShare(ret.value.paths.negative_rates_prob,
                      PathsEverNegative(call.paths), Len(call.paths[1]))
           /\ ret.value.paths.negative_rates_prob
                >= Rnd(SCALE * Cardinality(PathsNegativeAtMaturity(call.paths)),
                       Len(call.paths[1]))
           /\ call.paths[1][1] < 0 => ret.value.paths.negative_rates_prob = SCALE

\* A path that dips below zero and ends above it is counted.
C23_Witness ==
    /\ Measured("calculate_simulation_statistics")
    /\ call.paths[1][1] > 0
    /\ PathsNegativeAtMaturity(call.paths) = {}
    /\ PathsEverNegative(call.paths) = {1}
    /\ ret.value.paths.negative_rates_prob = SCALE \div 2

\* The running maximum of path j up to row t, the relative fall below it at
\* row t, and the lowest cell of the path.
RunningMax(paths, t, j) == MaxSeq([u \in 1..(t + 1) |-> Cell(paths, u - 1, j)])

FallAt(paths, t, j) ==
    Div(RunningMax(paths, t, j) - Cell(paths, t, j), RunningMax(paths, t, j))

LargestFall(paths, j) == MaxSeq([u \in 1..Len(paths) |-> FallAt(paths, u - 1, j)])

Lowest(paths, j) == MinSeq([u \in 1..Len(paths) |-> Cell(paths, u - 1, j)])

\* The result is the mean over the paths of each path's largest relative fall
\* below its running maximum.
MeanOfLargestFalls ==
    /\ \A j \in 1..Len(call.paths[1]) : ret.drawdowns[j] = LargestFall(call.paths, j)
    /\ ret.value = MeanRow([j \in 1..Len(call.paths[1]) |-> LargestFall(call.paths, j)])

\* C24 as stated: calculate_max_drawdown returns the mean over paths of each
\* path's maximum over time of (running maximum - value) / running maximum;
\* for r0 > 0 each path's drawdown is >= 0, < 1 for a path that never goes
\* negative and > 1 for a path that takes a negative value.
C24_BelowOneUnlessNegative ==
    (Measured("calculate_max_drawdown") /\ call.paths[1][1] > 0)
        => /\ MeanOfLargestFalls
           /\ \A j \in 1..Len(call.paths[1]) :
                /\ ret.drawdowns[j] >= 0
                /\ Lowest(call.paths, j) >= 0 => ret.drawdowns[j] < SCALE
                /\ Lowest(call.paths, j) < 0 => ret.drawdowns[j] > SCALE

\* C24, amended: calculate_max_drawdown returns the mean over paths of each
\* path's maximum over time of (running maximum - value) / running maximum;
\* for r0 > 0 each path's drawdown is >= 0, < 1 for a path that stays
\* strictly positive, exactly 1 for a path that touches zero without going
\* negative, and > 1 for a path that takes a negative value.
C24_AtMostOneUnlessNegative ==
    (Measured("calculate_max_drawdown") /\ call.paths[1][1] > 0)
        => /\ MeanOfLargestFalls
           /\ \A j \in 1..Len(call.paths[1]) :
                /\ ret.drawdowns[j] >= 0
                /\ Lowest(call.paths, j) > 0 => ret.drawdowns[j] < SCALE
                /\ Lowest(call.paths, j) = 0 => ret.drawdowns[j] = SCALE
                /\ Lowest(call.paths, j) < 0 => ret.drawdowns[j] > SCALE

\* One path touches zero and stays non-negative, the other goes negative.
C24_Witness ==
    /\ Measured("calculate_max_drawdown")
    /\ call.paths[1][1] > 0
    /\ Lowest(call.paths, 1) = 0
    /\ ret.drawdowns[1] = SCALE
    /\ Lowest(call.paths, 2) < 0
    /\ ret.drawdowns[2] > SCALE

\* ------------------------------------------------------------------------
\* The matrix against a path run on its own (under SpecLoop)
\* ------------------------------------------------------------------------

\* C25: for both schemes, a single path run one step at a time with state
\* (t, value) and the draw z(t, j) holds, at every step t, the value of cell
\* (t, j) of the matrix the loop builds row by row.
C25_ScalarPathIsColumn ==
    Len(ref) > ret.t => ret.value = Cell(ref, ret.t, ret.j)

\* The second path has reached the last step, the matrix is complete, and
\* the two columns ended apart.
C25_Witness ==
    /\ pc = "loop"
    /\ ret.j = 2
    /\ ret.t = call.n_steps
    /\ Len(ref) = call.n_steps + 1
    /\ ret.value = Cell(ref, call.n_steps, 2)
    /\ Cell(ref, call.n_steps, 1) # Cell(ref, call.n_steps, 2)
    /\ Cell(ref, call.n_steps, 2) # Cell(ref, 1, 2)

\* ------------------------------------------------------------------------
\* The order of the sources (under SpecLoad)
\* ------------------------------------------------------------------------

\* The candidates whose request succeeds, and the first of them.
Succeeding(world) == {k \in 1..Len(CANDIDATE_SERIES) : world.api[k] = "ok"}

FirstSucceeding(world) ==
    CHOOSE k \in Succeeding(world) : \A m \in Succeeding(world) : k <= m

\* The candidates 1..k in declaration order.
CandidatesUpTo(k) == [i \in 1..k |-> CANDIDATE_SERIES[i]]

\* C26: load_with_fallback applies an ordered first-success policy: the API
\* is attempted first, the CSV is read only after every candidate of the API
\* has failed, and an error is raised only when the CSV has failed as well;
\* the metadata has source 'ECB_SDW' exactly when the API supplied the data
\* and 'fallback_csv' exactly when the CSV did; within the API fetch the
\* candidates are tried in declaration order and the first that succeeds is
\* returned without trying the later ones.
C26_OrderedFirstSuccess ==
    pc = "done"
        => /\ ret.tried[1] = CANDIDATE_SERIES[1]
           /\ Succeeding(call.world) # {}
                => /\ ~ret.raised
                   /\ ret.meta[1].source = "ECB_SDW"
                   /\ ret.meta[1].series_label
                        = CANDIDATE_SERIES[FirstSucceeding(call.world)]
                   /\ ret.tried = CandidatesUpTo(FirstSucceeding(call.world))
           /\ Succeeding(call.world) = {}
                => /\ ret.tried = Append(CandidatesUpTo(Len(CANDIDATE_SERIES)), "csv")
                   /\ ret.raised <=> call.world.csv # "ok"
                   /\ ~ret.raised => ret.meta[1].source = "fallback_csv"

\* The first candidate fails, the second succeeds and is returned, and the
\* CSV, which could not have been read, is not touched.
C26_Witness ==
    /\ pc = "done"
    /\ call.op = "load_with_fallback"
    /\ call.world.api[1] # "ok"
    /\ call.world.api[2] = "ok"
    /\ call.world.csv = "missing"
    /\ ~ret.raised
    /\ ret.meta[1].source = "ECB_SDW"
    /\ ret.tried = CANDIDATE_SERIES

\* ------------------------------------------------------------------------
\* The use of the random stream (under SpecStream)
\* ------------------------------------------------------------------------

\* The k-th value of the stream of a generator made from the seed s, whatever
\* the entropy of the system.
Stream(s, k) == Normal(RngAt(default_rng(s, 0), k))

\* C27: both schemes consume the random stream identically: each pass draws
\* one vector of n_paths values, in step order, so that a call has taken
\* steps * paths values when it returns (none when steps = 0); with a seed
\* the generator is set from the seed alone, so the draw z(t, j) is the
\* ((t - 1) * paths + j)-th value of the seed's stream for either scheme,
\* and the rows returned are those of the scheme driven by these draws.
C27_StreamUsedAlike ==
    pc # "ready"
        => /\ ref.drawn = Len(ret.z) * call.n_paths
           /\ \A t \in 1..Len(ret.z) : Len(ret.z[t]) = call.n_paths
           /\ pc = "done" => ref.drawn = call.n_steps * call.n_paths
           /\ call.seed # <<>>
                => /\ \A t \in 1..Len(ret.z) : \A j \in 1..call.n_paths :
                        ret.z[t][j] = Stream(call.seed, (t - 1) * call.n_paths + j)
                   /\ \A e \in Entropy :
                        ref.rng = RngAt(default_rng(call.seed, e), ref.drawn)
           /\ pc = "done"
                => ret.paths
                     = IF call.op = "simulate_vasicek_exact"
                       THEN ExactRows(call.params, call.n_steps, call.n_paths,
                                      call.dt, ret.z)
                       ELSE EulerRows(call.params, call.n_steps, call.n_paths,
                                      call.dt, ret.z)

\* A seeded Euler run has returned after the full number of passes, and the
\* vectors of its passes differ.
C27_Witness ==
    /\ pc = "done"
    /\ call.op = "simulate_vasicek_euler"
    /\ call.seed = <<7>>
    /\ call.n_steps = MaxSteps
    /\ call.n_paths = MaxPaths
    /\ ref.drawn = MaxSteps * MaxPaths
    /\ ret.z[1] # ret.z[2]
    /\ ret.z = Draws(default_rng(call.seed, call.entropy), MaxSteps, MaxPaths)

====
